---- MODULE Spec2Model ----
(***************************************************************************)
(* Model of pipeline_app.py: the response parser (parse_analysis), the     *)
(* per-item processor (download_youtube_video, process_video) and the      *)
(* batch loop of main.                                                     *)
(*                                                                         *)
(* Python text is a sequence of one-character strings; offsets are the     *)
(* 0-based offsets of the Python code, so CharAt(s, i) is s[i].            *)
(* Python values that may be None are tagged: PyNone, PyStr(x).            *)
(***************************************************************************)
EXTENDS Integers, Sequences, FiniteSets, TLC

\* ------------------------------------------------------------------ bounds
\* Longest input collection of a run.
MaxVideos == 2
\* State fetches recorded per item; further fetches are still made.
MaxPolls == 1

\* ------------------------------------------------------------ Python values
PyNone == <<"NoneType">>
PyStr(x) == <<"str", x>>

\* `is not None` in the place of truthiness: only None counts as absent.
TruthyUnlessNone(v) == v # PyNone

\* Python truthiness of a JSON value read by dict.get: None and "" are falsy.
Truthy(v) == v # PyNone /\ v # PyStr("")

\* dict.get(key): the value, or None when the key is absent.
DictGet(d, key) == IF key \in DOMAIN d THEN d[key] ELSE PyNone

\* d[key] = value on a dict: the key is added or overwritten, the rest stays.
DictSet(d, key, value) ==
    [f \in (DOMAIN d) \cup {key} |-> IF f = key THEN value ELSE d[f]]

\* -------------------------------------------------------------- Python text
\* The member of a one-member set. In Only({ Op(v) : v \in {x} }) Op works on
\* the value of x, which is evaluated once, as Python evaluates an argument
\* before the call.
Only(S) == CHOOSE r \in S : TRUE

\* Characters matched by \s and removed by str.strip().
Whitespace == {" ", "\n", "\t", "\r", "\f"}
\* Characters matched by \d.
Digits == {"0", "1", "2", "3", "4", "5", "6", "7", "8", "9"}

\* s[i]
CharAt(s, i) == s[i + 1]

\* s[a:b] for 0 <= a and 0 <= b <= len(s); empty when b <= a.
Slice(s, a, b) == SubSeq(s, a + 1, b)

\* s.startswith(m, i)
StartsAt(s, i, m) ==
    /\ i + Len(m) <= Len(s)
    /\ \A k \in 1..Len(m) : s[i + k] = m[k]

\* The least member of a non-empty set of offsets.
Least(S) == CHOOSE i \in S : \A j \in S : i <= j

\* s.find(m, i): the first offset >= i where m occurs, or -1.
FindFrom(s, m, i) ==
    LET hits == { j \in i..(Len(s) - Len(m)) : StartsAt(s, j, m) }
    IN  IF hits = {} THEN -1 ELSE Least(hits)

\* s.find(m)
Find(s, m) == FindFrom(s, m, 0)

\* s.replace(old, new): every occurrence, left to right, occurrences not
\* overlapping; rest[i] is the result for the text from offset i on.
Replace(s, old, new) ==
    LET Replaced(v) ==
            LET rest[i \in 0..Len(v)] ==
                    LET j == FindFrom(v, old, i)
                    IN  IF j = -1 THEN Slice(v, i, Len(v))
                        ELSE Slice(v, i, j) \o new \o rest[j + Len(old)]
            IN  rest[0]
    IN  Only({ Replaced(v) : v \in {s} })

\* The offset after the longest run of characters of class C that starts at i.
SkipClass(s, i, C) ==
    Least({ j \in i..Len(s) : j = Len(s) \/ CharAt(s, j) \notin C })

\* The offset after the longest run of whitespace that starts at i (\s*).
SkipSpace(s, i) == SkipClass(s, i, Whitespace)

\* The offset after the longest run of digits that starts at i (\d*).
SkipDigits(s, i) == SkipClass(s, i, Digits)

\* The least offset e >= lo such that s[e:hi] is whitespace only (lo <= hi).
BackSpace(s, lo, hi) ==
    Least({ e \in lo..hi : \A k \in e..(hi - 1) : CharAt(s, k) \in Whitespace })

\* s.strip()
Strip(s) ==
    LET Stripped(v) ==
            LET a == SkipSpace(v, 0)
            IN  Slice(v, a, BackSpace(v, a, Len(v)))
    IN  Only({ Stripped(v) : v \in {s} })

\* ------------------------------------------------------------------ markers
alias_marker ==
    <<"*", "*", "V", "i", "d", "e", "o", " ", "S", "u", "m", "m", "a", "r", "y", ":", "*", "*">>
summary_marker ==
    <<"*", "*", "S", "u", "m", "m", "a", "r", "y", ":", "*", "*">>
qa_marker ==
    <<"*", "*", "Q", "u", "e", "s", "t", "i", "o", "n", "s", " ", "a", "n", "d", " ",
      "A", "n", "s", "w", "e", "r", "s", ":", "*", "*">>
question_head == <<"*", "*", "Q", "u", "e", "s", "t", "i", "o", "n">>
head_close == <<":", "*", "*">>
answer_head == <<"*", "*", "A", "n", "s", "w", "e", "r", ":", "*", "*">>
context_head == <<"*", "*", "C", "o", "n", "t", "e", "x", "t", ":", "*", "*">>
bold == <<"*", "*">>
quote == "\""
\* ---------------------------------------------------------------- qa_pattern
\* Offset after \*\*Question(?:\s*\d+)?\:\*\* matched at offset i, or -1. The
\* optional group is tried first; where it matches, the header closes after it.
QuestionHeadEnd(s, i) ==
    IF ~StartsAt(s, i, question_head) THEN -1
    ELSE LET p == i + Len(question_head)
             w == SkipSpace(s, p)
             d == SkipDigits(s, w)
         IN  IF d > w /\ StartsAt(s, d, head_close) THEN d + Len(head_close)
             ELSE IF StartsAt(s, p, head_close) THEN p + Len(head_close)
             ELSE -1

\* The lookahead (?=\n\s*\*\*|$) at offset e ($ without re.MULTILINE: the end
\* of the text, or just before a newline that ends the text).
Lookahead(s, e) ==
    \/ e = Len(s)
    \/ e = Len(s) - 1 /\ CharAt(s, e) = "\n"
    \/ e < Len(s) /\ CharAt(s, e) = "\n" /\ StartsAt(s, SkipSpace(s, e + 1), bold)

\* The lazy group (.+?) followed by \"?(?=...), tried from offset e0 on: the
\* group stops at the least offset e where the closing quote and the lookahead,
\* or else the lookahead alone, match. <<stop of the group, end of the match>>.
ContextStop(s, e0) ==
    LET Closed(e) == e < Len(s) /\ CharAt(s, e) = quote /\ Lookahead(s, e + 1)
        e == Least({ j \in e0..Len(s) : Closed(j) \/ Lookahead(s, j) })
    IN  IF Closed(e) THEN <<e, e + 1>> ELSE <<e, e>>

\* \s*\"?(.+?)\"?(?=...) after the context header, which ends at offset t < len:
\* \s* takes the whole run of whitespace and \"? the quote, unless that leaves
\* no character for the group; then the last one taken is given back.
\* <<start of the group, stop of the group, end of the match>>.
ContextTail(s, t) ==
    LET w == SkipSpace(s, t)
        u == IF w < Len(s) THEN w ELSE Len(s) - 1
    IN  IF u + 1 < Len(s) /\ CharAt(s, u) = quote
        THEN <<u + 1>> \o ContextStop(s, u + 2)
        ELSE <<u>> \o ContextStop(s, u + 1)

NoMatch == [ok |-> FALSE]

\* qa_pattern matched at offset i of s (re.DOTALL): the three groups and the
\* offset where the match ends, or NoMatch. The lazy groups 1 and 2 end before
\* the whitespace in front of the first following header.
MatchAt(s, i) ==
    LET h == QuestionHeadEnd(s, i)
        q0 == SkipSpace(s, h)
        a == FindFrom(s, answer_head, q0)
        a0 == SkipSpace(s, a + Len(answer_head))
        c == FindFrom(s, context_head, a0)
        t == c + Len(context_head)
        tail == ContextTail(s, t)
    IN  IF h = -1 THEN NoMatch
        ELSE IF a = -1 THEN NoMatch
        ELSE IF c = -1 THEN NoMatch
        ELSE IF t >= Len(s) THEN NoMatch
        ELSE [ok |-> TRUE,
              question |-> Slice(s, q0, BackSpace(s, q0, a)),
              answer |-> Slice(s, a0, BackSpace(s, a0, c)),
              context |-> Slice(s, tail[1], tail[2]),
              end |-> tail[3]]

\* re.findall(qa_pattern, s, flags=re.DOTALL): the matches, leftmost first,
\* each search resuming where the last match ended; found[i] is the result for
\* the search from offset i on. A match can start only where a question header
\* starts.
FindAll(s) ==
    LET Matches(v) ==
            LET found[i \in 0..Len(v)] ==
                    LET j == FindFrom(v, question_head, i)
                        Tuple(m) ==
                            IF m.ok
                            THEN <<[question |-> m.question, answer |-> m.answer,
                                    context |-> m.context]>> \o found[m.end]
                            ELSE found[j + 1]
                    IN  IF j = -1 THEN <<>>
                        ELSE Only({ Tuple(m) : m \in {MatchAt(v, j)} })
            IN  found[0]
    IN  Only({ Matches(v) : v \in {s} })

\* -------------------------------------------------------------- parse_analysis
\* Lines 80-85: the stripped groups of each match.
QaList(matches) ==
    [k \in 1..Len(matches) |->
        [question |-> Strip(matches[k].question),
         answer |-> Strip(matches[k].answer),
         context |-> Strip(matches[k].context)]]

\* Lines 56-87 with line 71 as summary = analysis_text: without a summary
\* marker the text is returned as it is.
StandardizedUntrimmed(text) ==
    LET index_summary == Find(text, summary_marker)
        summary_start == index_summary + Len(summary_marker)
        index_qa == Find(text, qa_marker)
        summary ==
            IF index_summary # -1
            THEN IF index_qa # -1
                 THEN Strip(Slice(text, summary_start, index_qa))
                 ELSE Strip(Slice(text, summary_start, Len(text)))
            ELSE text
        qa_text == Strip(Slice(text, index_qa + Len(qa_marker), Len(text)))
        qa_list ==
            IF index_qa # -1
            THEN Only({ QaList(v) : v \in {FindAll(qa_text)} })
            ELSE <<>>
    IN  [summary |-> summary, qa |-> qa_list]

\* Lines 56-87 with line 69 in the place of line 67: the summary runs to the
\* end of the text whether or not there is a Q&A marker.
StandardizedToEnd(text) ==
    LET index_summary == Find(text, summary_marker)
        summary_start == index_summary + Len(summary_marker)
        index_qa == Find(text, qa_marker)
        summary ==
            IF index_summary # -1
            THEN Strip(Slice(text, summary_start, Len(text)))
            ELSE Strip(text)
        qa_text == Strip(Slice(text, index_qa + Len(qa_marker), Len(text)))
        qa_list ==
            IF index_qa # -1
            THEN Only({ QaList(v) : v \in {FindAll(qa_text)} })
            ELSE <<>>
    IN  [summary |-> summary, qa |-> qa_list]

\* Lines 56-87, on the text line 53 assigned.
Standardized(text) ==
    LET index_summary == Find(text, summary_marker)
        summary_start == index_summary + Len(summary_marker)
        index_qa == Find(text, qa_marker)
        summary ==
            IF index_summary # -1
            THEN IF index_qa # -1
                 THEN Strip(Slice(text, summary_start, index_qa))
                 ELSE Strip(Slice(text, summary_start, Len(text)))
            ELSE Strip(text)
        qa_text == Strip(Slice(text, index_qa + Len(qa_marker), Len(text)))
        qa_list ==
            IF index_qa # -1
            THEN Only({ QaList(v) : v \in {FindAll(qa_text)} })
            ELSE <<>>
    IN  [summary |-> summary, qa |-> qa_list]

parse_analysis(analysis_text) ==
    Only({ Standardized(text) :
           text \in {Replace(analysis_text, alias_marker, summary_marker)} })
\* ------------------------------------------------------------ the environment
\* The descriptors an input collection may hold at position i. Each carries
\* its position as a pass-through field "id". One has a url (and, at even
\* positions, already an "analysis" field, as a re-run input has), one has no
\* url field, one an empty url and one a null url.
Descriptors(i) ==
    { IF i % 2 = 0
      THEN [id |-> i, url |-> PyStr("https://example.com/v"), title |-> PyStr("T"),
            analysis |-> [summary |-> PyStr("stale")]]
      ELSE [id |-> i, url |-> PyStr("https://example.com/v"), title |-> PyStr("T")],
      [id |-> i, title |-> PyStr("no url")],
      [id |-> i, url |-> PyStr("")],
      [id |-> i, url |-> PyNone] }

\* The input collections of at most MaxVideos descriptors.
Inputs ==
    UNION { { d \in [1..n -> UNION { Descriptors(i) : i \in 1..n }] :
                \A i \in 1..n : d[i] \in Descriptors(i) } : n \in 0..MaxVideos }

\* What open() / json.load() of the input file yields instead of a collection
\* when the file is missing or is not JSON.
Unreadable == <<"unreadable">>
\* An input file that holds a collection.
Readable(data) == <<"json", data>>

\* Values of GOOGLE_API_KEY in the environment: unset, empty, set.
ApiKeys == {PyNone, PyStr(""), PyStr("key")}

\* States a remote file handle reports (processed_video.state.name).
HandleStates == {"PROCESSING", "ACTIVE", "FAILED"}

\* The text of the exception a collaborator raises (str(e)), per operation.
RaiseText(op) ==
    CASE op = "upload_file" -> "upload failed"
      [] op = "get_file" -> "state fetch failed"
      [] op = "agent.run" -> "agent failed"

\* str(e) of the AttributeError of None.replace(...) in parse_analysis.
NoneReplaceText == "'NoneType' object has no attribute 'replace'"

\* Replies of the agent (response.content): free text, structured text, None.
plain_text == <<"n", "o", " ", "m", "a", "r", "k", "e", "r", "s">>
structured_text ==
    alias_marker \o <<" ", "s", "u", "m", "\n">> \o qa_marker \o <<"\n">>
    \o question_head \o <<" ", "1">> \o head_close \o <<" ", "q", "?", "\n">>
    \o answer_head \o <<" ", "a", "\n">>
    \o context_head \o <<" ", quote, "c", quote>>
Contents == {PyNone, PyStr(plain_text), PyStr(structured_text)}

\* parse_analysis of each text the agent may reply.
Parsed ==
    (plain_text :> parse_analysis(plain_text))
    @@ (structured_text :> parse_analysis(structured_text))

\* ---------------------------------------------------------------------- state
VARIABLES
    api_key,          \* os.getenv("GOOGLE_API_KEY")
    input_file,       \* what the input file holds: a collection, or Unreadable
    pc,               \* where main is
    videos_data,      \* the loaded collection; its records are mutated in place
    idx,              \* position of the for loop in videos_data (1-based)
    video_file_path,  \* what download_youtube_video returned for the item
    processed_video,  \* process_video's handle: [name, state], or None
    polls,            \* state fetches recorded for the item (at most MaxPolls)
    analysis_text,    \* response.content inside process_video
    output_data,      \* the output list: references into videos_data
    output_json,      \* the content of output.json, None while not written
    files,            \* items whose temporary media file exists on disk
    calls,            \* the collaborator calls made so far: <<op, item, outcome>>
    parsed            \* parse_analysis as a table over the reply texts; it is
                      \* a pure function, so the table never changes
\* The parser on its own (ParserSpec); main leaves these as they are.
VARIABLES
    doc,              \* how the text given to the parser is composed
    raw,              \* the text given to parse_analysis
    analysis          \* what parse_analysis returned, None before the call

vars == <<api_key, input_file, pc, videos_data, idx, video_file_path,
          processed_video, polls, analysis_text, output_data, output_json,
          files, calls, parsed, doc, raw, analysis>>

\* video_obj of the for loop: the record itself, not a copy.
video_obj == videos_data[idx]

\* The records output_data refers to, as json.dump would write them now.
OutputView == [k \in 1..Len(output_data) |-> videos_data[output_data[k]]]

\* video_obj["analysis"] = value
SetAnalysis(value) ==
    videos_data' = [videos_data EXCEPT ![idx] = DictSet(@, "analysis", value)]

\* How a call of a collaborator ends.
Returned(value) == <<"returned", value>>
Raised(text) == <<"raised", text>>

\* A call of a collaborator, as recorded: operation, item, argument, outcome.
Call(op, arg, out) == [op |-> op, item |-> idx, arg |-> arg, out |-> out]

Record(op, arg, out) == calls' = Append(calls, Call(op, arg, out))

\* A state fetch is recorded like any call until MaxPolls fetches of the item
\* are recorded; a later fetch takes the place of the last one recorded.
RecordFetch(arg, out) ==
    calls' = IF polls < MaxPolls
             THEN Append(calls, Call("get_file", arg, out))
             ELSE [calls EXCEPT ![Len(calls)] = Call("get_file", arg, out)]

Init ==
    /\ api_key \in ApiKeys
    /\ input_file \in {Readable(data) : data \in Inputs} \cup {Unreadable}
    /\ pc = "configure"
    /\ videos_data = <<>>
    /\ idx = 0
    /\ video_file_path = PyNone
    /\ processed_video = PyNone
    /\ polls = 0
    /\ analysis_text = PyNone
    /\ output_data = <<>>
    /\ output_json = PyNone
    /\ files = {}
    /\ calls = <<>>
    /\ parsed = Parsed
    /\ doc = PyNone
    /\ raw = PyNone
    /\ analysis = PyNone

\* ----------------------------------------------------------------------- main
\* Lines 128-134 without the return of line 134: main goes on without a key.
ConfigureWithoutReturn ==
    /\ pc = "configure"
    /\ pc' = "read_input"
    /\ UNCHANGED <<doc, raw, analysis,
                   api_key, input_file, parsed, videos_data, idx,
                   video_file_path, processed_video, polls, analysis_text,
                   output_data, output_json, files, calls>>

\* Lines 128-134: without an API key main prints and returns.
Configure ==
    /\ pc = "configure"
    /\ pc' = IF Truthy(api_key) THEN "read_input" ELSE "aborted"
    /\ UNCHANGED <<doc, raw, analysis,
                   api_key, input_file, parsed, videos_data, idx, video_file_path,
                   processed_video, polls, analysis_text, output_data,
                   output_json, files, calls>>

\* Lines 137-142: the input file is loaded; on any exception main returns.
ReadInput ==
    /\ pc = "read_input"
    /\ IF input_file = Unreadable
       THEN pc' = "aborted" /\ UNCHANGED videos_data
       ELSE pc' = "init_agent" /\ videos_data' = input_file[2]
    /\ UNCHANGED <<doc, raw, analysis,
                   api_key, input_file, parsed, idx, video_file_path, processed_video,
                   polls, analysis_text, output_data, output_json, files, calls>>

\* Lines 145-162: the agent is built, output_data = [], the loop starts.
InitAgent ==
    /\ pc = "init_agent"
    /\ output_data' = <<>>
    /\ idx' = 1
    /\ pc' = "for"
    /\ UNCHANGED <<doc, raw, analysis,
                   api_key, input_file, parsed, videos_data, video_file_path,
                   processed_video, polls, analysis_text, output_json, files,
                   calls>>

\* Lines 164-167 handled like the download failure of lines 172-174: the
\* video_obj is given an error and appended.
SkipItemAnnotated ==
    /\ SetAnalysis([error |-> "No URL"])
    /\ output_data' = Append(output_data, idx)
    /\ pc' = "for"
    /\ idx' = idx + 1

\* Lines 164-167: a video_obj without a truthy url is skipped (continue):
\* nothing is attached to it and nothing is appended.
SkipItem ==
    /\ pc' = "for"
    /\ idx' = idx + 1
    /\ UNCHANGED <<videos_data, output_data>>

\* Lines 163-168: the next video_obj, or the end of the loop.
ForEach ==
    /\ pc = "for"
    /\ IF idx > Len(videos_data)
       THEN pc' = "write" /\ UNCHANGED <<idx, videos_data, output_data>>
       ELSE IF ~Truthy(DictGet(video_obj, "url"))
            THEN SkipItem
            ELSE pc' = "download" /\ UNCHANGED <<idx, videos_data, output_data>>
    /\ UNCHANGED <<doc, raw, analysis,
                   api_key, input_file, parsed, video_file_path, processed_video, polls,
                   analysis_text, output_json, files, calls>>

\* download_youtube_video (lines 20-43): a path when yt-dlp left an mp4 file,
\* None when it left none or when anything raised.
download_youtube_video(result) ==
    IF result = "mp4" THEN PyStr(<<"tmp", idx>>) ELSE PyNone

\* Lines 170-174 with break in the place of continue: the loop ends at the
\* first item without a file.
DownloadFailedBreaks ==
    /\ SetAnalysis([error |-> "Download failed"])
    /\ output_data' = Append(output_data, idx)
    /\ idx' = idx + 1
    /\ pc' = "write"
    /\ UNCHANGED files

\* Lines 170-174 without the continue of line 174: the item is appended and
\* the try statement is entered all the same.
DownloadFailedFallsThrough ==
    /\ SetAnalysis([error |-> "Download failed"])
    /\ output_data' = Append(output_data, idx)
    /\ pc' = "upload"
    /\ UNCHANGED <<idx, files>>

\* Lines 170-174: without a file the item is appended with the error
\* "Download failed" and the loop continues.
DownloadFailed ==
    /\ SetAnalysis([error |-> "Download failed"])
    /\ output_data' = Append(output_data, idx)
    /\ idx' = idx + 1
    /\ pc' = "for"
    /\ UNCHANGED files

\* Lines 169-174: the download and what follows from its result.
Download ==
    /\ pc = "download"
    /\ \E result \in {"mp4", "no mp4", "raised"} :
          /\ video_file_path' = download_youtube_video(result)
          /\ Record("download", video_obj.url, Returned(video_file_path'))
          /\ IF video_file_path' = PyNone
             THEN DownloadFailed
             ELSE /\ files' = files \cup {idx}
                  /\ pc' = "upload"
                  /\ UNCHANGED <<videos_data, output_data, idx>>
    /\ UNCHANGED <<doc, raw, analysis,
                   api_key, input_file, parsed, processed_video, polls, analysis_text,
                   output_json>>

\* Lines 175-181 without the except clause: the exception leaves main.
ExceptPropagates(text) ==
    /\ processed_video' = PyNone
    /\ analysis_text' = PyNone
    /\ pc' = "aborted"
    /\ UNCHANGED videos_data

\* Lines 179-187 without the finally clause: after the except clause the item
\* is appended at once.
ExceptSkipsCleanup(text) ==
    /\ SetAnalysis([error |-> text])
    /\ processed_video' = PyNone
    /\ analysis_text' = PyNone
    /\ pc' = "append"

\* Lines 179-181, reached by an exception out of process_video: the item gets
\* the error value; the finally clause follows.
Except(text) ==
    /\ SetAnalysis([error |-> text])
    /\ processed_video' = PyNone
    /\ analysis_text' = PyNone
    /\ pc' = "remove"

\* Lines 98-99: upload_file raises or returns a handle in some state.
Upload ==
    /\ pc = "upload"
    /\ polls' = 0
    /\ \/ /\ Record("upload_file", video_file_path, Raised(RaiseText("upload_file")))
          /\ Except(RaiseText("upload_file"))
       \/ \E st \in HandleStates :
             /\ Record("upload_file", video_file_path, Returned(st))
             /\ processed_video' = [name |-> idx, state |-> st]
             /\ pc' = "while"
             /\ UNCHANGED <<videos_data, analysis_text>>
    /\ UNCHANGED <<doc, raw, analysis,
                   api_key, input_file, parsed, idx, video_file_path, output_data,
                   output_json, files>>

\* Line 101 as `while False`: the wait is never entered.
StillProcessingNever(handle) == FALSE

\* Line 101: the wait goes on while the handle is PROCESSING.
StillProcessing(handle) == handle.state = "PROCESSING"

\* Lines 101-103 with a ceiling on the wait: after MaxPolls fetches the
\* processor gives up and the item gets an error.
GetFileGivesUp ==
    /\ pc = "while"
    /\ StillProcessing(processed_video)
    /\ IF polls >= MaxPolls
       THEN /\ Except("Timed out")
            /\ UNCHANGED <<polls, calls>>
       ELSE /\ polls' = polls + 1
            /\ \/ /\ RecordFetch(processed_video.name, Raised(RaiseText("get_file")))
                  /\ Except(RaiseText("get_file"))
               \/ \E st \in HandleStates :
                     /\ RecordFetch(processed_video.name, Returned(st))
                     /\ processed_video' = [name |-> processed_video.name, state |-> st]
                     /\ pc' = "while"
                     /\ UNCHANGED <<videos_data, analysis_text>>
    /\ UNCHANGED <<doc, raw, analysis,
                   api_key, input_file, parsed, idx, video_file_path, output_data,
                   output_json, files>>

\* Lines 101-103: while the handle is PROCESSING its state is fetched again;
\* get_file raises or returns the handle in some state.
GetFile ==
    /\ pc = "while"
    /\ StillProcessing(processed_video)
    /\ polls' = IF polls < MaxPolls THEN polls + 1 ELSE polls
    /\ \/ /\ RecordFetch(processed_video.name, Raised(RaiseText("get_file")))
          /\ Except(RaiseText("get_file"))
       \/ \E st \in HandleStates :
             /\ RecordFetch(processed_video.name, Returned(st))
             /\ processed_video' = [name |-> processed_video.name, state |-> st]
             /\ pc' = "while"
             /\ UNCHANGED <<videos_data, analysis_text>>
    /\ UNCHANGED <<doc, raw, analysis,
                   api_key, input_file, parsed, idx, video_file_path, output_data,
                   output_json, files>>

\* Lines 101, 105-115: the loop ends when the state is not PROCESSING, and the
\* agent is run on the handle; it raises or answers with some content.
AgentRun ==
    /\ pc = "while"
    /\ ~StillProcessing(processed_video)
    /\ \/ /\ Record("agent.run", processed_video, Raised(RaiseText("agent.run")))
          /\ Except(RaiseText("agent.run"))
       \/ \E content \in Contents :
             /\ Record("agent.run", processed_video, Returned(content))
             /\ analysis_text' = content
             /\ pc' = "parse"
             /\ UNCHANGED <<videos_data, processed_video>>
    /\ UNCHANGED <<doc, raw, analysis,
                   api_key, input_file, parsed, idx, video_file_path, polls,
                   output_data, output_json, files>>

\* Lines 117, 176-178: the reply is parsed and attached; None has no replace,
\* so parse_analysis raises AttributeError on it.
Parse ==
    /\ pc = "parse"
    /\ IF analysis_text = PyNone
       THEN Except(NoneReplaceText)
       ELSE /\ SetAnalysis(parsed[analysis_text[2]])
            /\ processed_video' = PyNone
            /\ analysis_text' = PyNone
            /\ pc' = "remove"
    /\ UNCHANGED <<doc, raw, analysis,
                   api_key, input_file, parsed, idx, video_file_path, polls,
                   output_data, output_json, files, calls>>

\* Lines 184-187 with the exception of os.remove written into the item.
RemoveFailedSurfaces ==
    /\ SetAnalysis([error |-> "remove failed"])
    /\ pc' = "append"
    /\ UNCHANGED files

\* Lines 184-187 without the inner try: the exception of os.remove leaves main.
RemoveFailedPropagates ==
    /\ pc' = "aborted"
    /\ UNCHANGED <<videos_data, files>>

\* Lines 186-187: an exception of os.remove is printed, nothing else.
RemoveFailed ==
    /\ pc' = "append"
    /\ UNCHANGED <<videos_data, files>>

\* Lines 182-187: the finally clause removes the temporary file.
Remove ==
    /\ pc = "remove"
    /\ \/ /\ Record("os.remove", video_file_path, Returned(PyNone))
          /\ files' = files \ {idx}
          /\ pc' = "append"
          /\ UNCHANGED videos_data
       \/ /\ Record("os.remove", video_file_path, Raised("remove failed"))
          /\ RemoveFailed
    /\ UNCHANGED <<doc, raw, analysis,
                   api_key, input_file, parsed, idx, video_file_path, processed_video,
                   polls, analysis_text, output_data, output_json>>

\* Line 188 with insert(0, video_obj) in the place of append(video_obj).
AppendOutputFirst ==
    /\ pc = "append"
    /\ output_data' = <<idx>> \o output_data
    /\ idx' = idx + 1
    /\ pc' = "for"
    /\ UNCHANGED <<doc, raw, analysis,
                   api_key, input_file, parsed, videos_data, video_file_path,
                   processed_video, polls, analysis_text, output_json, files,
                   calls>>

\* Line 188 followed by the dump of lines 191-193 inside the loop: output.json
\* is rewritten after every item.
AppendOutputPersists ==
    /\ pc = "append"
    /\ output_data' = Append(output_data, idx)
    /\ output_json' = PyStr([k \in 1..Len(output_data') |->
                               videos_data[output_data'[k]]])
    /\ idx' = idx + 1
    /\ pc' = "for"
    /\ UNCHANGED <<doc, raw, analysis,
                   api_key, input_file, parsed, videos_data, video_file_path,
                   processed_video, polls, analysis_text, files, calls>>

\* Line 188: the record joins the output and the loop goes on.
AppendOutput ==
    /\ pc = "append"
    /\ output_data' = Append(output_data, idx)
    /\ idx' = idx + 1
    /\ pc' = "for"
    /\ UNCHANGED <<doc, raw, analysis,
                   api_key, input_file, parsed, videos_data, video_file_path,
                   processed_video, polls, analysis_text, output_json, files,
                   calls>>

\* Lines 191-193: output.json is written after the loop.
WriteOutput ==
    /\ pc = "write"
    /\ output_json' = PyStr(OutputView)
    /\ pc' = "done"
    /\ UNCHANGED <<doc, raw, analysis,
                   api_key, input_file, parsed, videos_data, idx, video_file_path,
                   processed_video, polls, analysis_text, output_data, files,
                   calls>>

Next ==
    \/ Configure
    \/ ReadInput
    \/ InitAgent
    \/ ForEach
    \/ Download
    \/ Upload
    \/ GetFile
    \/ AgentRun
    \/ Parse
    \/ Remove
    \/ AppendOutput
    \/ WriteOutput

Spec == Init /\ [][Next]_vars
\* The same run under the fairness its claims assume: every step that can be
\* taken is taken (every collaborator call returns or raises), and a handle
\* that is PROCESSING is eventually reported in another state, or its fetch
\* raises.
HandleLeaves == GetFile /\ (pc' = "while" => ~StillProcessing(processed_video'))

LiveSpec == Spec /\ WF_vars(Next) /\ WF_vars(HandleLeaves)

\* ------------------------------------------------------ the parser on its own
\* Longest run of question blocks in a text given to the parser.
MaxTriples == 3

\* The question blocks a reply may hold. Each is a question header and body,
\* an answer header and body, a context header and body, and what separates
\* the block from the next one; q, a and c are the three bodies as written
\* (the context without its quotes). Two kinds are truncated: one lacks the
\* answer header and body, one the context header and body.
TripleKinds ==
    {"numbered", "multiline", "sameline", "spaced", "bold", "noanswer", "nocontext"}

Triple(kind) ==
    CASE kind = "numbered" ->
           [head |-> question_head \o <<" ", "1">> \o head_close,
            q |-> <<"q", "1", "?">>, a |-> <<"a", "1">>, c |-> <<"c", "1">>,
            quoted |-> TRUE, end |-> <<"\n">>]
      [] kind = "multiline" ->
           [head |-> question_head \o head_close,
            q |-> <<"q", "\n", "2">>, a |-> <<"a", "\n", "2">>,
            c |-> <<"c", "\n", "2">>, quoted |-> FALSE, end |-> <<"\n">>]
      [] kind = "sameline" ->
           [head |-> question_head \o head_close,
            q |-> <<"q", "3">>, a |-> <<"a", "3">>, c |-> <<"c", "3">>,
            quoted |-> FALSE, end |-> <<" ">>]
      [] kind = "spaced" ->
           [head |-> question_head \o head_close,
            q |-> <<"q", "4">>, a |-> <<"a", "4">>, c |-> <<"c", "4">>,
            quoted |-> TRUE, end |-> <<" ", "\n">>]
      [] kind = "bold" ->
           [head |-> question_head \o head_close,
            q |-> <<"q", "5">>, a |-> <<"a", "5">>,
            c |-> <<"c", "\n", "*", "*", "b", "*", "*", " ", "5">>,
            quoted |-> FALSE, end |-> <<"\n">>]
      [] kind = "noanswer" ->
           [head |-> question_head \o head_close,
            q |-> <<"x", "6">>, a |-> <<>>, c |-> <<"y", "6">>,
            quoted |-> FALSE, end |-> <<"\n">>]
      [] kind = "nocontext" ->
           [head |-> question_head \o head_close,
            q |-> <<"x", "7">>, a |-> <<"z", "7">>, c |-> <<>>,
            quoted |-> FALSE, end |-> <<"\n">>]

\* The text of a question block.
TripleText(kind) ==
    LET t == Triple(kind)
        mark == IF t.quoted THEN <<quote>> ELSE <<>>
    IN  t.head \o <<" ">> \o t.q \o <<"\n">>
        \o (IF kind = "noanswer" THEN <<>>
            ELSE answer_head \o <<" ">> \o t.a \o <<"\n">>)
        \o (IF kind = "nocontext" THEN <<>>
            ELSE context_head \o <<" ">> \o mark \o t.c \o mark \o t.end)

\* What a reply may hold in front of its question blocks.
HeadKinds ==
    {"none", "plain", "summary", "alias", "summary_qa", "alias_qa", "qa_only",
     "qa_first", "alias_summary", "alias_alias"}

HeadText(kind) ==
    CASE kind = "none" -> <<>>
      [] kind = "plain" -> <<" ", "t", "x", "t", "\n">>
      [] kind = "summary" -> <<"p", " ">> \o summary_marker \o <<" ", "s", "\n">>
      [] kind = "alias" -> alias_marker \o <<" ", "v", "\n">>
      [] kind = "summary_qa" ->
           summary_marker \o <<" ", "s", "\n">> \o qa_marker \o <<"\n">>
      [] kind = "alias_qa" ->
           alias_marker \o <<" ", "v", "\n">> \o qa_marker \o <<"\n">>
      [] kind = "qa_only" -> <<"t", "\n">> \o qa_marker \o <<"\n">>
      [] kind = "qa_first" ->
           qa_marker \o <<"\n">> \o summary_marker \o <<" ", "s", "\n">>
      [] kind = "alias_summary" ->
           alias_marker \o <<" ", "v", " ">> \o summary_marker \o <<" ", "s", "\n">>
           \o qa_marker \o <<"\n">>
      [] kind = "alias_alias" ->
           alias_marker \o SubSeq(alias_marker, 3, Len(alias_marker))
           \o <<" ", "v", "\n">> \o qa_marker \o <<"\n">>

\* The runs of at most n question blocks.
TripleRuns(n) == UNION { [1..k -> TripleKinds] : k \in 0..n }

\* The replies given to the parser: every head with at most one question
\* block, and the head with both markers with every run of blocks.
Docs ==
    { [head |-> h, triples |-> t] : h \in HeadKinds, t \in TripleRuns(1) }
    \cup { [head |-> "summary_qa", triples |-> t] : t \in TripleRuns(MaxTriples) }

\* The text of the blocks of run t from block k on.
RECURSIVE BlocksText(_, _)
BlocksText(t, k) ==
    IF k > Len(t) THEN <<>> ELSE TripleText(t[k]) \o BlocksText(t, k + 1)

\* The text of a reply.
Render(d) == HeadText(d.head) \o BlocksText(d.triples, 1)

ParserInit ==
    /\ doc \in Docs
    /\ raw = PyStr(Render(doc))
    /\ analysis = PyNone
    /\ api_key = PyNone
    /\ input_file = Unreadable
    /\ pc = "parser"
    /\ videos_data = <<>>
    /\ idx = 0
    /\ video_file_path = PyNone
    /\ processed_video = PyNone
    /\ polls = 0
    /\ analysis_text = PyNone
    /\ output_data = <<>>
    /\ output_json = PyNone
    /\ files = {}
    /\ calls = <<>>
    /\ parsed = <<>>

\* Lines 46-87: parse_analysis is called with the text and returns.
ParseText ==
    /\ pc = "parser"
    /\ analysis' = parse_analysis(raw[2])
    /\ pc' = "parsed"
    /\ UNCHANGED <<doc, raw, api_key, input_file, videos_data, idx,
                   video_file_path, processed_video, polls, analysis_text,
                   output_data, output_json, files, calls, parsed>>

ParserSpec == ParserInit /\ [][ParseText]_vars

\* ------------------------------------------------------- reading the history
\* The collection as it was read from the input file.
Input == input_file[2]

Items == 1..Len(videos_data)

HasUrl(d) == Truthy(DictGet(d, "url"))

\* The positions in calls of the calls of operation op made for item i.
CallsOf(i, op) == { k \in 1..Len(calls) : calls[k].item = i /\ calls[k].op = op }

RemoteOps == {"upload_file", "get_file", "agent.run"}

\* The remote calls made for item i, and those of them that raised.
RemoteCalls(i) == { k \in 1..Len(calls) : calls[k].item = i /\ calls[k].op \in RemoteOps }
RaisedCalls(i) == { k \in RemoteCalls(i) : calls[k].out[1] = "raised" }

\* Acquisition of item i returned a file, or returned none.
Acquired(i) == \E k \in CallsOf(i, "download") : calls[k].out # Returned(PyNone)
DownloadNone(i) == \E k \in CallsOf(i, "download") : calls[k].out = Returned(PyNone)

\* The agent answered for item i, and the answer had no text.
Replied(i) == \E k \in CallsOf(i, "agent.run") : calls[k].out[1] = "returned"
Reply(i) == calls[CHOOSE k \in CallsOf(i, "agent.run") : TRUE].out[2]
RepliedNone(i) == Replied(i) /\ Reply(i) = PyNone

\* Deletion of item i's temporary file raised.
RemoveRaised(i) == \E k \in CallsOf(i, "os.remove") : calls[k].out[1] = "raised"

\* Item i failed: no file, a remote call raised, or the reply could not be parsed.
Failed(i) == DownloadNone(i) \/ RaisedCalls(i) # {} \/ RepliedNone(i)

InOutput(i) == \E k \in 1..Len(output_data) : output_data[k] = i
Attempted(i) == CallsOf(i, "download") # {}

HasAnalysis(i) == "analysis" \in DOMAIN videos_data[i]
Analysis(i) == videos_data[i]["analysis"]
IsError(a) == DOMAIN a = {"error"}
IsResult(a) == DOMAIN a = {"summary", "qa"}

\* The try statement of lines 175-181 has been left for item i.
Ended(i) == i < idx \/ (i = idx /\ pc \in {"remove", "append"})

Terminal == pc \in {"done", "aborted"}

\* The positions of the input descriptors with a url, among the first n.
RECURSIVE UrlItems(_)
UrlItems(n) ==
    IF n = 0 THEN <<>>
    ELSE IF HasUrl(Input[n]) THEN Append(UrlItems(n - 1), n)
    ELSE UrlItems(n - 1)
\* ---------------------------------------------------------------- the claims
\* C1: a failed item (no file, or an exception of upload, state fetch, analysis
\* or parsing) stops nothing: when the run has ended after some item failed,
\* every descriptor with a url has been attempted and is in the output exactly
\* once; and every output entry carries an error value if its own item failed
\* and the parsed reply of its own item otherwise.
C1_FailureIsolated ==
    /\ \A k \in 1..Len(output_data) :
          LET i == output_data[k]
          IN  /\ HasAnalysis(i)
              /\ IF Failed(i) THEN IsError(Analysis(i))
                 ELSE Replied(i) /\ Analysis(i) = parsed[Reply(i)[2]]
    /\ (Terminal /\ \E i \in Items : Failed(i)) =>
          \A j \in Items : HasUrl(videos_data[j]) =>
             /\ Attempted(j)
             /\ Cardinality({ k \in 1..Len(output_data) : output_data[k] = j }) = 1

\* C1 witness: a finished run of two items with a url in which the first failed
\* and the second carries a result.
C1_Witness ==
    /\ pc = "done"
    /\ Len(output_data) = 2
    /\ Failed(output_data[1])
    /\ ~Failed(output_data[2])
    /\ IsResult(Analysis(output_data[2]))

\* C2: once the try statement is left for an item whose download gave a file,
\* the item's analysis is an error value or a result value; it is the error
\* value with the text of the exception when a remote call raised, and with
\* the text of the parser's exception when the reply had no text. No exception
\* reaches the batch loop: main never ends early after a collaborator call.
C2_RemoteFailureContained ==
    /\ \A i \in Items : (Acquired(i) /\ Ended(i)) =>
          /\ HasAnalysis(i)
          /\ IsError(Analysis(i)) \/ IsResult(Analysis(i))
          /\ \A k \in RaisedCalls(i) : Analysis(i) = [error |-> calls[k].out[2]]
          /\ RepliedNone(i) => Analysis(i) = [error |-> NoneReplaceText]
          /\ (RaisedCalls(i) = {} /\ ~RepliedNone(i)) => IsResult(Analysis(i))
    /\ pc = "aborted" => calls = <<>>

\* C2 witness: a finished run with an item whose state fetch raised and an item
\* whose reply had no text.
C2_Witness ==
    /\ pc = "done"
    /\ \E i \in Items : \E k \in RaisedCalls(i) : calls[k].op = "get_file"
    /\ \E i \in Items : RepliedNone(i)

\* C3: an item whose download gave no file has the analysis
\* {error: "Download failed"}, is in the output, and has no upload, no state
\* fetch, no agent run and no file deletion among the calls made.
C3_DownloadFailedShortCircuit ==
    \A i \in Items : DownloadNone(i) =>
       /\ HasAnalysis(i)
       /\ Analysis(i) = [error |-> "Download failed"]
       /\ InOutput(i)
       /\ RemoteCalls(i) = {}
       /\ CallsOf(i, "os.remove") = {}

\* C3 witness: a finished run in which the first item had no file and a later
\* item was processed.
C3_Witness ==
    /\ pc = "done"
    /\ Len(videos_data) >= 2
    /\ DownloadNone(1)
    /\ \E j \in Items : Acquired(j)

\* C4: for an item whose download gave a file, os.remove is called at most
\* once, and exactly once by the time the item is in the output; the call comes
\* after every remote call of the item and after the try statement is left
\* (with a result or with an error), and while the call is still to be made the
\* item is not in the output.
C4_CleanupOnce ==
    \A i \in Items : Acquired(i) =>
       LET removes == CallsOf(i, "os.remove")
       IN  /\ Cardinality(removes) <= 1
           /\ InOutput(i) => Cardinality(removes) = 1
           /\ \A r \in removes :
                 /\ \A k \in RemoteCalls(i) : k < r
                 /\ Ended(i)
                 /\ HasAnalysis(i)
                 /\ IsError(Analysis(i)) \/ IsResult(Analysis(i))
           /\ removes = {} => ~InOutput(i)

\* C4 witness: an item whose upload raised and an item with a parsed reply are
\* both in the output, each after its file deletion.
C4_Witness ==
    /\ \E i \in Items :
          /\ InOutput(i)
          /\ \E k \in RaisedCalls(i) : calls[k].op = "upload_file"
          /\ CallsOf(i, "os.remove") # {}
    /\ \E i \in Items :
          InOutput(i) /\ Acquired(i) /\ IsResult(Analysis(i))

\* C5: when os.remove raised for an item, the item's analysis is what the
\* remote steps made it (the error of the call that raised, or the parsed
\* reply), the run is not aborted, and when the run has ended the item and
\* every later descriptor with a url are in the output.
C5_CleanupFailureSilent ==
    \A i \in Items : RemoveRaised(i) =>
       /\ HasAnalysis(i)
       /\ \A k \in RaisedCalls(i) : Analysis(i) = [error |-> calls[k].out[2]]
       /\ RepliedNone(i) => Analysis(i) = [error |-> NoneReplaceText]
       /\ (RaisedCalls(i) = {} /\ ~RepliedNone(i)) =>
             Analysis(i) = parsed[Reply(i)[2]]
       /\ pc # "aborted"
       /\ Terminal =>
             /\ InOutput(i)
             /\ \A j \in Items : (j > i /\ HasUrl(videos_data[j])) =>
                   Attempted(j) /\ InOutput(j)

\* C5 witness: a finished run in which deletion raised for the first item, that
\* item carries a result, and the second item was processed after it.
C5_Witness ==
    /\ pc = "done"
    /\ Len(videos_data) >= 2
    /\ RemoveRaised(1)
    /\ IsResult(Analysis(1))
    /\ Attempted(2)

\* C6: when the run is done, the output refers to exactly the input
\* descriptors with a url, in input order, and what is written holds for each
\* of them the input record with one more or one replaced field, "analysis",
\* whose value is a result {summary, qa} or an error {error}.
C6_OutputShape ==
    pc = "done" =>
       /\ output_data = UrlItems(Len(Input))
       /\ output_json = PyStr(OutputView)
       /\ \A k \in 1..Len(output_data) :
             LET i == output_data[k]
                 written == output_json[2][k]
             IN  /\ DOMAIN written = DOMAIN Input[i] \cup {"analysis"}
                 /\ \A f \in DOMAIN Input[i] \ {"analysis"} : written[f] = Input[i][f]
                 /\ IsError(written["analysis"]) \/ IsResult(written["analysis"])

\* C6 witness: a finished run over two descriptors with a url, one written with
\* a result and one with an error.
C6_Witness ==
    /\ pc = "done"
    /\ Len(output_data) = 2
    /\ IsResult(output_json[2][1]["analysis"])
    /\ IsError(output_json[2][2]["analysis"])

\* C7: a descriptor with no url field stays as it was read (nothing is
\* attached to it), is not in the output and has no call made for it; the
\* descriptors with a url before and after it are in the output when the run
\* is done.
C7_NoUrlFieldDiscarded ==
    \A i \in Items : "url" \notin DOMAIN Input[i] =>
       /\ videos_data[i] = Input[i]
       /\ ~InOutput(i)
       /\ \A k \in 1..Len(calls) : calls[k].item # i
       /\ pc = "done" =>
             \A j \in Items : HasUrl(Input[j]) => Attempted(j) /\ InOutput(j)

\* C7 witness: a finished run whose first descriptor has no url field and whose
\* second descriptor was processed.
C7_Witness ==
    /\ pc = "done"
    /\ Len(videos_data) = 2
    /\ "url" \notin DOMAIN Input[1]
    /\ InOutput(2)
    /\ Acquired(2)

\* C8: every run of the agent is given a handle that is ready (ACTIVE): never
\* one that is PROCESSING, never one that ended in another state.
C8_AgentGetsReadyHandle ==
    \A k \in 1..Len(calls) :
       calls[k].op = "agent.run" => calls[k].arg.state = "ACTIVE"

\* C9: under LiveSpec, a run that has entered the batch loop is eventually done
\* with the output written.
C9_RunCompletes ==
    (pc = "for") ~> (pc = "done" /\ output_json = PyStr(OutputView))

\* C9 witness: a finished run with an acquisition failure, a remote failure
\* and a cleanup failure among its items.
C9_Witness ==
    /\ pc = "done"
    /\ output_json # PyNone
    /\ \E i \in Items : DownloadNone(i)
    /\ \E i \in Items : RaisedCalls(i) # {} /\ RemoveRaised(i)

\* C10: main is aborted only without an API key or without a readable input;
\* in those two cases no collaborator call is ever made, the batch loop is
\* never entered and nothing is written; once a call has been made the run is
\* never aborted.
C10_AbortOnlyBeforeBatch ==
    LET unavailable == ~Truthy(api_key) \/ input_file = Unreadable
    IN  /\ pc = "aborted" => unavailable
        /\ unavailable =>
              /\ calls = <<>>
              /\ output_json = PyNone
              /\ pc \in {"configure", "read_input", "aborted"}
        /\ calls # <<>> => pc # "aborted"

\* C10 witness: main aborted on an unreadable input although the key is set.
C10_Witness ==
    /\ pc = "aborted"
    /\ Truthy(api_key)
    /\ input_file = Unreadable

\* ------------------------------------------------- the claims on the parser
\* m occurs in the text s.
Contains(s, m) == \E i \in 0..(Len(s) - Len(m)) : StartsAt(s, i, m)

\* t is the text s without the whitespace around it.
IsTrimOf(t, s) ==
    \E a \in 0..Len(s) : \E b \in a..Len(s) :
       /\ t = Slice(s, a, b)
       /\ \A k \in 0..(a - 1) : CharAt(s, k) \in Whitespace
       /\ \A k \in b..(Len(s) - 1) : CharAt(s, k) \in Whitespace
       /\ t # <<>> => (t[1] \notin Whitespace /\ t[Len(t)] \notin Whitespace)

\* v is a sequence of one-character strings.
IsText(v) == v \in Seq(STRING)

\* v is a qa entry: question, answer and context, each a text.
IsQaEntry(v) ==
    /\ DOMAIN v = {"question", "answer", "context"}
    /\ IsText(v.question) /\ IsText(v.answer) /\ IsText(v.context)

\* C11: for every text, the empty one included, parse_analysis returns a
\* record of a summary that is a text and a qa that is a sequence of entries;
\* when the text holds no summary marker (in neither of its two forms) and no
\* Q&A marker, the summary is the whole text trimmed and qa is empty.
C11_ParseTotal ==
    pc = "parsed" =>
       /\ DOMAIN analysis = {"summary", "qa"}
       /\ IsText(analysis.summary)
       /\ DOMAIN analysis.qa = 1..Len(analysis.qa)
       /\ \A k \in 1..Len(analysis.qa) : IsQaEntry(analysis.qa[k])
       /\ ( /\ ~Contains(raw[2], summary_marker)
            /\ ~Contains(raw[2], alias_marker)
            /\ ~Contains(raw[2], qa_marker) ) =>
             /\ IsTrimOf(analysis.summary, raw[2])
             /\ analysis.qa = <<>>

\* C11 witness: a text without markers, with whitespace around it and with a
\* question block in it, has been parsed into its trimmed self and no entry.
C11_Witness ==
    /\ pc = "parsed"
    /\ doc.head = "plain"
    /\ Len(doc.triples) = 1
    /\ Len(analysis.summary) < Len(raw[2])
    /\ analysis.qa = <<>>

\* The truncated kinds of block, and the kinds with all three parts.
Truncated == {"noanswer", "nocontext"}
WellFormed == TripleKinds \ Truncated

\* The kinds whose block starts on a line of its own after a context body
\* that ends with its line and holds no bold line.
Separate == {"numbered", "multiline"}

\* The entry a block of a kind is written to give.
Entry(kind) ==
    [question |-> Triple(kind).q, answer |-> Triple(kind).a,
     context |-> Triple(kind).c]

\* The entries of the well-formed blocks of run t, in the order of the run.
RECURSIVE Entries(_, _)
Entries(t, k) ==
    IF k > Len(t) THEN <<>>
    ELSE IF t[k] \in WellFormed THEN <<Entry(t[k])>> \o Entries(t, k + 1)
    ELSE Entries(t, k + 1)

\* The reply has a Q&A segment with the blocks of doc in it.
HasSegment == pc = "parsed" /\ Contains(raw[2], qa_marker)

\* C12: in a Q&A segment of truncated blocks and of well-formed blocks that
\* each stand on lines of their own, a truncated block gives no entry and
\* every well-formed block gives exactly its own question, answer and context.
C12_TruncatedTripleDropped ==
    ( /\ HasSegment
      /\ \E k \in 1..Len(doc.triples) : doc.triples[k] \in Truncated
      /\ \A k \in 1..Len(doc.triples) : doc.triples[k] \in Truncated \cup Separate )
    => analysis.qa = Entries(doc.triples, 1)

\* C13: a Q&A segment of N well-formed blocks (N >= 0) gives exactly N
\* entries, the k-th with the question, answer and context of the k-th block,
\* the context without its quotes.
C13_WellFormedTriplesInOrder ==
    ( /\ HasSegment
      /\ \A k \in 1..Len(doc.triples) : doc.triples[k] \in WellFormed )
    => /\ Len(analysis.qa) = Len(doc.triples)
       /\ \A k \in 1..Len(doc.triples) : analysis.qa[k] = Entry(doc.triples[k])

\* The text after line 53: every alias marker rewritten to the summary marker.
Normalized == Replace(raw[2], alias_marker, summary_marker)

\* C14: with a summary marker in the text (after line 53), the summary is the
\* trimmed text from the end of the first summary marker to the start of the
\* first Q&A marker, or to the end of the text without a Q&A marker; it is
\* empty when the Q&A marker starts before that end. Without a summary marker
\* the summary is the whole text trimmed.
C14_SummaryBetweenMarkers ==
    pc = "parsed" =>
       LET i == Find(Normalized, summary_marker)
           j == Find(Normalized, qa_marker)
           from == i + Len(summary_marker)
           to == IF j # -1 THEN j ELSE Len(Normalized)
       IN  IF i # -1
           THEN IsTrimOf(analysis.summary, Slice(Normalized, from, to))
           ELSE IsTrimOf(analysis.summary, raw[2])

\* C14 witness: a text with the summary marker, a summary body, the Q&A marker
\* and a question block has been parsed and the summary is the body alone.
C14_Witness ==
    /\ pc = "parsed"
    /\ doc.head = "summary_qa"
    /\ Len(doc.triples) = 1
    /\ analysis.summary = <<"s">>

\* C15: for a text with an alias marker in it, parse_analysis returns the same
\* record as for the text with every alias marker rewritten to the summary
\* marker.
C15_AliasEqualsCanonical ==
    (pc = "parsed" /\ Contains(raw[2], alias_marker))
    => analysis = parse_analysis(Normalized)

\* C18: in a Q&A segment of well-formed blocks, the context of every entry
\* holds no question header, and it is the whole context body of the block the
\* entry's question comes from (a closing quote left on it apart).
C18_ContextEndsAtNextQuestion ==
    ( /\ HasSegment
      /\ \A k \in 1..Len(doc.triples) : doc.triples[k] \in WellFormed )
    => \A k \in 1..Len(analysis.qa) :
          LET e == analysis.qa[k]
          IN  /\ ~Contains(e.context, question_head)
              /\ \E kind \in WellFormed :
                    /\ e.question = Triple(kind).q
                    /\ e.context \in {Triple(kind).c, Triple(kind).c \o <<quote>>}

\* ----------------------------------------------- the claims on the batch loop
\* The place of a call in the processing of one item.
Step(op) ==
    CASE op = "download" -> 1
      [] op = "upload_file" -> 2
      [] op = "get_file" -> 3
      [] op = "agent.run" -> 4
      [] op = "os.remove" -> 5

\* The call returned a handle in state PROCESSING.
ReturnedProcessing(c) ==
    c.op \in {"upload_file", "get_file"} /\ c.out = Returned("PROCESSING")

\* C16: the calls are made item by item in input order, and for one item in
\* the order download, upload, state fetches, agent run, file deletion; a
\* state fetch directly follows a call that returned PROCESSING and the agent
\* run one that returned another state; the analysis is attached before the
\* deletion and the deletion made before the append; an item's first call
\* comes when every item called before it is in the output; the path and the
\* handle in use are those of the item of the loop, and a file is on disk for
\* that item only, unless its deletion raised.
C16_StrictlySequential ==
    /\ \A k \in 1..Len(calls) : \A l \in (k + 1)..Len(calls) :
          /\ calls[k].item <= calls[l].item
          /\ calls[k].item = calls[l].item =>
                /\ Step(calls[k].op) <= Step(calls[l].op)
                /\ Step(calls[k].op) = Step(calls[l].op) => calls[k].op = "get_file"
    /\ \A k \in 1..Len(calls) :
          /\ calls[k].op = "get_file" =>
                /\ k > 1 /\ calls[k - 1].item = calls[k].item
                /\ ReturnedProcessing(calls[k - 1])
                /\ calls[k].arg = calls[k].item
          /\ calls[k].op = "agent.run" =>
                /\ k > 1 /\ calls[k - 1].item = calls[k].item
                /\ calls[k - 1].op \in {"upload_file", "get_file"}
                /\ calls[k - 1].out[1] = "returned"
                /\ ~ReturnedProcessing(calls[k - 1])
                /\ calls[k].arg.name = calls[k].item
          /\ calls[k].op \in {"upload_file", "os.remove"} =>
                calls[k].arg = PyStr(<<"tmp", calls[k].item>>)
          /\ calls[k].op = "os.remove" => HasAnalysis(calls[k].item)
          /\ calls[k].item <= idx
          /\ \A i \in 1..(calls[k].item - 1) : Attempted(i) => InOutput(i)
    /\ \A i \in Items :
          (InOutput(i) /\ Acquired(i)) => CallsOf(i, "os.remove") # {}
    /\ pc \in {"while", "parse"} => processed_video.name = idx
    /\ pc \in {"upload", "while", "parse", "remove"} =>
          video_file_path = PyStr(<<"tmp", idx>>)
    /\ \A i \in files : i = idx \/ RemoveRaised(i)

\* C16 witness: a finished run of two items, the first with a state fetch,
\* both with an agent run and a file deletion.
C16_Witness ==
    /\ pc = "done"
    /\ Len(output_data) = 2
    /\ CallsOf(1, "get_file") # {}
    /\ CallsOf(1, "agent.run") # {}
    /\ CallsOf(2, "agent.run") # {}
    /\ CallsOf(2, "os.remove") # {}

\* The processor is in the wait of lines 101-103 with a PROCESSING handle.
Waiting == pc = "while" /\ processed_video.state = "PROCESSING"

\* The call recorded last.
LastCall == calls[Len(calls)]

\* C17: from a state of the wait with a PROCESSING handle the only step is a
\* state fetch of the item, whatever the number of fetches made so far; when
\* the fetch reports PROCESSING again the processor is in the wait again,
\* with no error attached, no agent run, nothing appended, the same item at
\* hand and no output written.
C17_WaitHasNoTimeout ==
    [][ Waiting =>
          /\ output_json = PyNone
          /\ ~InOutput(idx)
          /\ calls' # calls
          /\ Len(calls') \in {Len(calls), Len(calls) + 1}
          /\ LastCall'.op = "get_file"
          /\ LastCall'.item = idx
          /\ ReturnedProcessing(LastCall') =>
                /\ Waiting'
                /\ UNCHANGED <<idx, videos_data, output_data, output_json,
                               analysis_text, video_file_path, files>>
      ]_vars

\* C17 witness: the first of two items is still in the wait after MaxPolls
\* fetches that all reported PROCESSING.
C17_Witness ==
    /\ Waiting
    /\ polls = MaxPolls
    /\ idx = 1
    /\ Len(videos_data) = 2
    /\ LastCall.op = "get_file"
    /\ ReturnedProcessing(LastCall)
    /\ output_json = PyNone

\* C19: output.json is unwritten until the loop has gone through every
\* descriptor (each one with a url is in the output, each one without was
\* passed over); it is written in one step, the one that ends the run, with
\* the records collected, and no step follows that one. So no state in which
\* an item is being processed, and no aborted run, has anything written.
C19_OutputWrittenOnceAtEnd ==
    [][ /\ output_json # PyNone =>
              /\ pc = "done"
              /\ output_json = PyStr(OutputView)
        /\ pc = "done" => output_json # PyNone
        /\ pc \in {"write", "done"} =>
              /\ idx = Len(videos_data) + 1
              /\ \A i \in Items : HasUrl(Input[i]) <=> InOutput(i)
        /\ output_json' # output_json =>
              /\ output_json = PyNone
              /\ pc = "write" /\ pc' = "done"
              /\ UNCHANGED <<videos_data, output_data>>
        /\ pc = "done" => UNCHANGED vars
      ]_vars

\* C19 witness: a run of two descriptors is done, both are in the one output
\* written, the first with an error and the second with a parsed reply.
C19_Witness ==
    /\ pc = "done"
    /\ Len(videos_data) = 2
    /\ Len(output_data) = 2
    /\ output_json = PyStr(OutputView)
    /\ IsError(Analysis(1))
    /\ IsResult(Analysis(2))

\* The url field of the descriptor is present and is "" or null.
EmptyUrl(d) == "url" \in DOMAIN d /\ d.url \in {PyStr(""), PyNone}

\* C20: a descriptor whose url is "" or null stays as it was read (nothing
\* is attached to it), is not in the output and has no call made for it, as
\* one with no url field; the loop passes over it in the one step that
\* passes over a descriptor with no url field.
C20_EmptyUrlDiscarded ==
    [][ /\ \A i \in Items : EmptyUrl(Input[i]) =>
              /\ videos_data[i] = Input[i]
              /\ ~InOutput(i)
              /\ \A k \in 1..Len(calls) : calls[k].item # i
        /\ (pc = "for" /\ idx \in Items /\ EmptyUrl(Input[idx])) =>
              /\ pc' = "for"
              /\ idx' = idx + 1
              /\ UNCHANGED <<videos_data, output_data, output_json, calls,
                             files, video_file_path, processed_video,
                             analysis_text>>
      ]_vars

\* C20 witness: a finished run whose first descriptor has an empty or null
\* url and whose second descriptor was processed.
C20_Witness ==
    /\ pc = "done"
    /\ Len(videos_data) = 2
    /\ EmptyUrl(Input[1])
    /\ InOutput(2)
    /\ Acquired(2)
    /\ Len(output_data) = 1
====
